---- MODULE Spec2Model ----
(***************************************************************************)
(* Smart Bus Arrival Time Prediction System.                               *)
(*                                                                         *)
(* train_model.py: generate_dataset, preprocess_data (LabelEncoder fit),   *)
(* train_model (train_test_split, StandardScaler, Ridge), save_model       *)
(* (three joblib.dump calls), main.                                        *)
(* app.py: the module-level artifact load and the /predict handler.        *)
(*                                                                         *)
(* Real numbers are kept exact in fixed point: minutes in thousandths      *)
(* before rounding and in hundredths after it; a standardised feature      *)
(* (x - mean) / scale is the pair num / sqrt(den2).                        *)
(***************************************************************************)
EXTENDS Integers, Sequences, FiniteSets, TLC

VARIABLES
    \* ---- a training process (train_model.py main) ----
    run,        \* number of training processes started so far
    tpc,        \* position of the current training process in main()
    df,         \* the generated DataFrame (sequence of rows)
    tX,         \* encoded feature matrix X returned by preprocess_data
    ty,         \* target column y returned by preprocess_data
    tEnc,       \* the encoders dict returned by preprocess_data
    trainX,     \* X_train, the rows the scaler is fitted on
    tScaler,    \* the fitted StandardScaler
    tModel,     \* the fitted Ridge model
    \* ---- the file system ----
    csv,        \* data/dataset.csv
    fs,         \* models/bus_model.joblib, encoders.joblib, scaler.joblib
    \* ---- the Flask process (app.py) ----
    spc,        \* position of the service process
    sModel,     \* module global `model`
    sEnc,       \* module global `encoders`
    sScaler,    \* module global `scaler`
    lastReq,    \* JSON body of the latest /predict request
    lastResp,   \* response returned for it
    lastFeat,   \* the local features_scaled built while answering it
    history,    \* history: the first /predict calls, each with its response
    \* ---- the numpy global random generator (generate_dataset alone) ----
    proc,       \* number of interpreter processes that imported train_model
    rngPos,     \* how many variates the current process has consumed
    stream,     \* the variates seed 42 yields, as far as any process read them
    calls,      \* history: the generate_dataset calls made, with their result
    \* ---- a single label computation ----
    lin,        \* the row and the noise drawn for it
    lout,       \* the Arrival_Time_minutes computed for it, once it is
    \* ---- a single LabelEncoder ----
    col,        \* the column handed to fit_transform
    classes,    \* LabelEncoder.classes_ after fit
    codes       \* the codes fit_transform returned

trainerVars == <<run, tpc, df, tX, ty, tEnc, trainX, tScaler, tModel>>
fileVars    == <<csv, fs>>
serviceVars == <<spc, sModel, sEnc, sScaler, lastReq, lastResp, lastFeat, history>>
rngVars     == <<proc, rngPos, stream, calls>>
labelVars   == <<lin, lout>>
encVars     == <<col, classes, codes>>
vars == <<trainerVars, fileVars, serviceVars, rngVars, labelVars, encVars>>

(***************************************************************************)
(* Bounds of the model.                                                    *)
(***************************************************************************)
MaxRecords == 3      \* num_records handed to generate_dataset
MaxRuns == 1         \* training processes in the pipeline specification
LifeRuns == 2        \* training processes in the life-cycle specification
MaxCol == 3          \* length of a column handed to a LabelEncoder
StreamLen == 12      \* variates of the seeded generator that are followed
MaxProc == 2         \* interpreter processes importing train_model
MaxCalls == 2        \* generate_dataset calls recorded
MaxGen == 2          \* num_records of a recorded generate_dataset call
MaxHistory == 3      \* /predict calls whose response is remembered
NumVariates == 2     \* distinct outputs of the generator that are told apart

(***************************************************************************)
(* Vocabularies (train_model.py 20-35, app.py 70-72).                      *)
(***************************************************************************)
BUS_NUMBERS ==
    <<"BUS001", "BUS002", "BUS003", "BUS004", "BUS005", "BUS006", "BUS007", "BUS008">>

DESTINATIONS ==
    <<"Nagercoil", "Kanyakumari", "Marthandam", "Colachel", "Thuckalay",
      "Kulasekaram", "Padmanabhapuram", "Suchindram">>

DAYS_OF_WEEK ==
    <<"Monday", "Tuesday", "Wednesday", "Thursday", "Friday", "Saturday", "Sunday">>

valid_buses ==
    <<"BUS001", "BUS002", "BUS003", "BUS004", "BUS005", "BUS006", "BUS007", "BUS008">>

valid_destinations ==
    <<"Nagercoil", "Kanyakumari", "Marthandam", "Colachel", "Thuckalay",
      "Kulasekaram", "Padmanabhapuram", "Suchindram">>

valid_days ==
    <<"Monday", "Tuesday", "Wednesday", "Thursday", "Friday", "Saturday", "Sunday">>

Range(s) == {s[i] : i \in DOMAIN s}

(***************************************************************************)
(* Python string order.  A str is the sequence of its code points and      *)
(* sorted() / np.unique compare strings lexicographically by code point.   *)
(***************************************************************************)
Chars(s) ==
    CASE s = "BUS001" -> <<66, 85, 83, 48, 48, 49>>
      [] s = "BUS002" -> <<66, 85, 83, 48, 48, 50>>
      [] s = "BUS003" -> <<66, 85, 83, 48, 48, 51>>
      [] s = "BUS004" -> <<66, 85, 83, 48, 48, 52>>
      [] s = "BUS005" -> <<66, 85, 83, 48, 48, 53>>
      [] s = "BUS006" -> <<66, 85, 83, 48, 48, 54>>
      [] s = "BUS007" -> <<66, 85, 83, 48, 48, 55>>
      [] s = "BUS008" -> <<66, 85, 83, 48, 48, 56>>
      [] s = "Nagercoil" -> <<78, 97, 103, 101, 114, 99, 111, 105, 108>>
      [] s = "Kanyakumari" -> <<75, 97, 110, 121, 97, 107, 117, 109, 97, 114, 105>>
      [] s = "Marthandam" -> <<77, 97, 114, 116, 104, 97, 110, 100, 97, 109>>
      [] s = "Colachel" -> <<67, 111, 108, 97, 99, 104, 101, 108>>
      [] s = "Thuckalay" -> <<84, 104, 117, 99, 107, 97, 108, 97, 121>>
      [] s = "Kulasekaram" -> <<75, 117, 108, 97, 115, 101, 107, 97, 114, 97, 109>>
      [] s = "Padmanabhapuram" -> <<80, 97, 100, 109, 97, 110, 97, 98, 104, 97, 112, 117, 114, 97, 109>>
      [] s = "Suchindram" -> <<83, 117, 99, 104, 105, 110, 100, 114, 97, 109>>
      [] s = "Monday" -> <<77, 111, 110, 100, 97, 121>>
      [] s = "Tuesday" -> <<84, 117, 101, 115, 100, 97, 121>>
      [] s = "Wednesday" -> <<87, 101, 100, 110, 101, 115, 100, 97, 121>>
      [] s = "Thursday" -> <<84, 104, 117, 114, 115, 100, 97, 121>>
      [] s = "Friday" -> <<70, 114, 105, 100, 97, 121>>
      [] s = "Saturday" -> <<83, 97, 116, 117, 114, 100, 97, 121>>
      [] s = "Sunday" -> <<83, 117, 110, 100, 97, 121>>
      [] OTHER -> <<>>

\* a < b for two code point sequences
SeqLess(a, b) ==
    \E k \in 1..(Len(a) + 1) :
        /\ \A j \in 1..(k - 1) : j <= Len(b) /\ a[j] = b[j]
        /\ \/ k = Len(a) + 1 /\ Len(b) >= k
           \/ k <= Len(a) /\ k <= Len(b) /\ a[k] < b[k]

StrLess(s, t) == SeqLess(Chars(s), Chars(t))

(***************************************************************************)
(* sklearn.preprocessing.LabelEncoder as preprocess_data uses it.          *)
(* fit: classes_ = the distinct values, sorted ascending.                  *)
(* transform: the 0-based position of the value in classes_; a value that  *)
(* is not in classes_ raises ValueError (previously unseen labels).        *)
(***************************************************************************)
RECURSIVE SortedSeq(_)
SortedSeq(S) ==
    IF S = {} THEN <<>>
    ELSE LET m == CHOOSE x \in S : \A y \in S \ {x} : StrLess(x, y)
         IN  <<m>> \o SortedSeq(S \ {m})

\* a LabelEncoder that numbers the values in order of first appearance
RECURSIVE FirstSeen(_)
FirstSeen(column) ==
    IF column = <<>> THEN <<>>
    ELSE LET rest == FirstSeen(SubSeq(column, 1, Len(column) - 1))
             v == column[Len(column)]
         IN  IF v \in Range(rest) THEN rest ELSE Append(rest, v)

LabelEncoderFit(column) == SortedSeq(Range(column))

Seen(cls, v) == v \in Range(cls)

LabelEncoderTransform(cls, v) == (CHOOSE i \in DOMAIN cls : cls[i] = v) - 1

LabelEncoderInverse(cls, c) == cls[c + 1]

LabelEncoderFitTransform(column) ==
    LET cls == LabelEncoderFit(column)
    IN  [i \in DOMAIN column |-> LabelEncoderTransform(cls, column[i])]

(***************************************************************************)
(* The label of one generated row (generate_dataset, the loop body).       *)
(* Amounts are thousandths of a minute; the result is hundredths.          *)
(***************************************************************************)
destination_base_time(d) ==
    CASE d = "Nagercoil" -> 2
      [] d = "Kanyakumari" -> 8
      [] d = "Marthandam" -> 5
      [] d = "Colachel" -> 10
      [] d = "Thuckalay" -> 12
      [] d = "Kulasekaram" -> 6
      [] d = "Padmanabhapuram" -> 3
      [] d = "Suchindram" -> 7
      [] OTHER -> 6

stop_delay(stop) == stop * 500

time_delay(hour) ==
    IF 6 <= hour /\ hour < 12 THEN 1500
    ELSE IF 12 <= hour /\ hour < 18 THEN 500
    ELSE IF 18 <= hour /\ hour < 21 THEN 2000
    ELSE 1000

day_factor(day) == IF day \in {"Saturday", "Sunday"} THEN 1000 ELSE 500

bus_delays(b) ==
    CASE b = "BUS001" -> 500
      [] b = "BUS002" -> 1000
      [] b = "BUS003" -> 0
      [] b = "BUS004" -> 800
      [] b = "BUS005" -> 300
      [] b = "BUS006" -> 1200
      [] b = "BUS007" -> 200
      [] b = "BUS008" -> 700
      [] OTHER -> 500

\* np.clip(x, 1, 20) with only the upper limit applied
ClipUpperOnly(x) == IF x > 20000 THEN 20000 ELSE x

\* np.clip(x, 1, 20)
Clip(x) == IF x < 1000 THEN 1000 ELSE IF x > 20000 THEN 20000 ELSE x

\* ndarray.round(2): thousandths to hundredths, ties to the even neighbour
Round2(x) ==
    LET q == x \div 10
        r == x % 10
    IN  IF r < 5 THEN q
        ELSE IF r > 5 THEN q + 1
        ELSE IF q % 2 = 0 THEN q ELSE q + 1

total_arrival_time(row, noise) ==
    destination_base_time(row.Destination) * 1000 + stop_delay(row.Stop_Sequence)
        + time_delay(row.Time_Period) + day_factor(row.Day_Of_Week)
        + bus_delays(row.Bus_Number) + noise

ArrivalTime(row, noise) == Round2(Clip(total_arrival_time(row, noise)))

(***************************************************************************)
(* train_test_split(X, y, test_size=0.2, random_state=42): the test set    *)
(* holds ceil(0.2 n) rows, the training set the rest; an empty training    *)
(* set raises ValueError.  Which rows the seeded shuffle puts in the test  *)
(* set is left open.                                                       *)
(***************************************************************************)
NTest(n) == (n + 4) \div 5

NTrain(n) == n - NTest(n)

Splits(n) == {T \in SUBSET (1..n) : Cardinality(T) = NTest(n)}

\* the rows of M whose index is in keep, in index order
RECURSIVE Rows(_, _, _)
Rows(M, keep, i) ==
    IF i > Len(M) THEN <<>>
    ELSE IF i \in keep THEN <<M[i]>> \o Rows(M, keep, i + 1)
    ELSE Rows(M, keep, i + 1)

(***************************************************************************)
(* sklearn.preprocessing.StandardScaler as train_model and predict use it. *)
(* fit over m rows keeps, per column, the sum S and m*sum(x^2) - S^2       *)
(* (m^2 times the population variance); mean_ = S/m, scale_ = sqrt(var_),  *)
(* and a zero scale_ is replaced by 1 (no error is raised for a constant   *)
(* column).  transform: (x - mean_) / scale_, kept as num / sqrt(den2).    *)
(***************************************************************************)
NumFeatures == 5

RECURSIVE ColSum(_, _, _)
ColSum(M, j, i) == IF i > Len(M) THEN 0 ELSE M[i][j] + ColSum(M, j, i + 1)

RECURSIVE ColSumSq(_, _, _)
ColSumSq(M, j, i) == IF i > Len(M) THEN 0 ELSE M[i][j] * M[i][j] + ColSumSq(M, j, i + 1)

StandardScalerFit(M) ==
    [n   |-> Len(M),
     sum |-> [j \in 1..NumFeatures |-> ColSum(M, j, 1)],
     ssd |-> [j \in 1..NumFeatures |->
                 Len(M) * ColSumSq(M, j, 1) - ColSum(M, j, 1) * ColSum(M, j, 1)]]

StandardScalerTransform(sc, x) ==
    [j \in 1..NumFeatures |->
        [num  |-> sc.n * x[j] - sc.sum[j],
         den2 |-> IF sc.ssd[j] = 0 THEN sc.n * sc.n ELSE sc.ssd[j]]]

(***************************************************************************)
(* sklearn.linear_model.Ridge(alpha=1.0).  The fitted coefficients are the *)
(* ridge solution for the scaled training matrix and its labels; they are  *)
(* real numbers and are kept as that solution, not evaluated.  predict is  *)
(* intercept_ + coef_ . x for the fitted parameters.                       *)
(***************************************************************************)
RidgeFit(Xs, y) == [alpha |-> 1, X |-> Xs, y |-> y]

RidgePredict(m, x) == [params |-> m, x |-> x]

(***************************************************************************)
(* The training path for one row: preprocess_data numbers the three        *)
(* categorical columns with their encoders and keeps the DataFrame column  *)
(* order Bus_Number, Destination, Day_Of_Week, Time_Period, Stop_Sequence; *)
(* train_model scales the row with the fitted scaler (scaler.transform).   *)
(***************************************************************************)
Encodable(row, encoders) ==
    /\ Seen(encoders.bus_encoder, row.Bus_Number)
    /\ Seen(encoders.destination_encoder, row.Destination)
    /\ Seen(encoders.day_encoder, row.Day_Of_Week)

TrainingPathRow(row, encoders, scaler) ==
    LET X == [Bus_Number |-> LabelEncoderTransform(encoders.bus_encoder, row.Bus_Number),
              Destination |->
                  LabelEncoderTransform(encoders.destination_encoder, row.Destination),
              Day_Of_Week |-> LabelEncoderTransform(encoders.day_encoder, row.Day_Of_Week),
              Time_Period |-> row.Time_Period,
              Stop_Sequence |-> row.Stop_Sequence]
    IN  StandardScalerTransform(scaler,
            <<X.Bus_Number, X.Destination, X.Day_Of_Week, X.Time_Period, X.Stop_Sequence>>)

(***************************************************************************)
(* Values of the unset Python names and of the files.                      *)
(***************************************************************************)
NoEncoders == [bus_encoder |-> <<>>, destination_encoder |-> <<>>, day_encoder |-> <<>>]

NoScaler == [n |-> 0, sum |-> <<>>, ssd |-> <<>>]

NoModel == [alpha |-> 0, X |-> <<>>, y |-> <<>>]

\* a path that does not exist
Absent == [state |-> "absent", run |-> 0, data |-> <<>>]

\* a file opened for writing by joblib.dump and not yet complete
Partial(r) == [state |-> "partial", run |-> r, data |-> <<>>]

\* a file joblib.dump of training process r completed
Complete(r, d) == [state |-> "complete", run |-> r, data |-> d]

NotLoaded == Absent

Files == {"model", "encoders", "scaler"}

ClearTrainer ==
    /\ df' = <<>>
    /\ tX' = <<>>
    /\ ty' = <<>>
    /\ tEnc' = NoEncoders
    /\ trainX' = <<>>
    /\ tScaler' = NoScaler
    /\ tModel' = NoModel

(***************************************************************************)
(* train_model.py main(), one action per call it makes.                    *)
(***************************************************************************)
Running ==
    {"start", "generated", "datasetSaved", "preprocessed", "trained",
     "dumpModel", "savedModel", "dumpEncoders", "savedEncoders", "dumpScaler"}

\* python train_model.py: a new interpreter starts main()
StartTraining(maxRuns) ==
    /\ tpc \notin Running
    /\ run < maxRuns
    /\ run' = run + 1
    /\ tpc' = "start"
    /\ ClearTrainer
    /\ UNCHANGED <<fileVars, serviceVars, rngVars, labelVars, encVars>>

\* the DataFrame generate_dataset returns for the five drawn columns b, d, w, h, s
\* and the noise z drawn for each row
Frame(n, b, d, w, h, s, z) ==
    [i \in 1..n |->
        LET row == [Bus_Number |-> b[i], Destination |-> d[i],
                    Day_Of_Week |-> w[i], Time_Period |-> h[i],
                    Stop_Sequence |-> s[i]]
        IN  [Bus_Number |-> b[i], Destination |-> d[i],
             Day_Of_Week |-> w[i], Time_Period |-> h[i],
             Stop_Sequence |-> s[i],
             Arrival_Time_minutes |-> ArrivalTime(row, z[i])]]

\* df = generate_dataset(num_records): the draws are any values of their ranges
GenerateDataset(buses, dests, days, hours, stops, noises) ==
    /\ tpc = "start"
    /\ \E n \in 1..MaxRecords :
       \E b \in [1..n -> buses], d \in [1..n -> dests], w \in [1..n -> days],
          h \in [1..n -> hours], s \in [1..n -> stops], z \in [1..n -> noises] :
          df' = Frame(n, b, d, w, h, s, z)
    /\ tpc' = "generated"
    /\ UNCHANGED <<run, tX, ty, tEnc, trainX, tScaler, tModel>>
    /\ UNCHANGED <<fileVars, serviceVars, rngVars, labelVars, encVars>>

\* save_dataset(df)
SaveDataset ==
    /\ tpc = "generated"
    /\ csv' = df
    /\ tpc' = "datasetSaved"
    /\ UNCHANGED <<run, df, tX, ty, tEnc, trainX, tScaler, tModel, fs>>
    /\ UNCHANGED <<serviceVars, rngVars, labelVars, encVars>>

Column(frame, name) == [i \in DOMAIN frame |-> frame[i][name]]

\* X, y, encoders = preprocess_data(df)
PreprocessData ==
    /\ tpc = "datasetSaved"
    /\ LET busCodes == LabelEncoderFitTransform(Column(df, "Bus_Number"))
           dstCodes == LabelEncoderFitTransform(Column(df, "Destination"))
           dayCodes == LabelEncoderFitTransform(Column(df, "Day_Of_Week"))
       IN  /\ tX' = [i \in DOMAIN df |->
                       <<busCodes[i], dstCodes[i], dayCodes[i],
                         df[i].Time_Period, df[i].Stop_Sequence>>]
           /\ ty' = Column(df, "Arrival_Time_minutes")
           /\ tEnc' = [bus_encoder |-> LabelEncoderFit(Column(df, "Bus_Number")),
                       destination_encoder |-> LabelEncoderFit(Column(df, "Destination")),
                       day_encoder |-> LabelEncoderFit(Column(df, "Day_Of_Week"))]
    /\ tpc' = "preprocessed"
    /\ UNCHANGED <<run, df, trainX, tScaler, tModel>>
    /\ UNCHANGED <<fileVars, serviceVars, rngVars, labelVars, encVars>>

\* model, scaler, train_metrics, test_metrics = train_model(X, y)
TrainModel ==
    /\ tpc = "preprocessed"
    /\ IF NTrain(Len(tX)) = 0
       THEN \* train_test_split raises ValueError: the process ends
            /\ tpc' = "failed"
            /\ ClearTrainer
       ELSE \E test \in Splits(Len(tX)) :
            LET keep == (1..Len(tX)) \ test
                X_train == Rows(tX, keep, 1)
                y_train == Rows(ty, keep, 1)
                scaler == StandardScalerFit(X_train)
                X_train_scaled ==
                    [i \in DOMAIN X_train |-> StandardScalerTransform(scaler, X_train[i])]
            IN  /\ trainX' = X_train
                /\ tScaler' = scaler
                /\ tModel' = RidgeFit(X_train_scaled, y_train)
                /\ tpc' = "trained"
                /\ UNCHANGED <<df, tX, ty, tEnc>>
    /\ UNCHANGED run
    /\ UNCHANGED <<fileVars, serviceVars, rngVars, labelVars, encVars>>

\* joblib.dump opens its path for writing, which truncates the file
OpenDump(f, from, to) ==
    /\ tpc = from
    /\ fs' = [fs EXCEPT ![f] = Partial(run)]
    /\ tpc' = to
    /\ UNCHANGED <<run, df, tX, ty, tEnc, trainX, tScaler, tModel, csv>>
    /\ UNCHANGED <<serviceVars, rngVars, labelVars, encVars>>

\* joblib.dump has written the whole object and closed the file
CloseDump(f, from, to, object) ==
    /\ tpc = from
    /\ fs' = [fs EXCEPT ![f] = Complete(run, object)]
    /\ tpc' = to
    /\ IF to = "done"
       THEN ClearTrainer
       ELSE UNCHANGED <<df, tX, ty, tEnc, trainX, tScaler, tModel>>
    /\ UNCHANGED <<run, csv>>
    /\ UNCHANGED <<serviceVars, rngVars, labelVars, encVars>>

\* save_model(model, encoders, scaler): three dumps, one after the other
SaveModel ==
    \/ OpenDump("model", "trained", "dumpModel")
    \/ CloseDump("model", "dumpModel", "savedModel", tModel)
    \/ OpenDump("encoders", "savedModel", "dumpEncoders")
    \/ CloseDump("encoders", "dumpEncoders", "savedEncoders", tEnc)
    \/ OpenDump("scaler", "savedEncoders", "dumpScaler")
    \/ CloseDump("scaler", "dumpScaler", "done", tScaler)

\* the training process dies (kill, full disk, exception) wherever it is
TrainingCrash ==
    /\ tpc \in Running
    /\ tpc' = "crashed"
    /\ ClearTrainer
    /\ UNCHANGED run
    /\ UNCHANGED <<fileVars, serviceVars, rngVars, labelVars, encVars>>

(***************************************************************************)
(* app.py, module level: the artifact load at process start.               *)
(***************************************************************************)
\* if not os.path.exists(MODEL_PATH): exit(1)
CheckModelPath ==
    /\ spc = "init"
    /\ spc' = IF fs["model"].state = "absent" THEN "exited" ELSE "loadModel"
    /\ UNCHANGED <<sModel, sEnc, sScaler, lastReq, lastResp, lastFeat, history>>
    /\ UNCHANGED <<trainerVars, fileVars, rngVars, labelVars, encVars>>

\* joblib.load(path): the object of a complete file; a missing or truncated
\* file raises, and an exception at module level ends the process
Readable(f) == fs[f].state = "complete"

\* a load that swallows the exception and goes on with nothing loaded
LoadOrSkip(f, from, to) ==
    /\ spc = from
    /\ spc' = to
    /\ IF Readable(f)
       THEN /\ sModel' = IF f = "model" THEN fs[f] ELSE sModel
            /\ sEnc' = IF f = "encoders" THEN fs[f] ELSE sEnc
            /\ sScaler' = IF f = "scaler" THEN fs[f] ELSE sScaler
       ELSE UNCHANGED <<sModel, sEnc, sScaler>>
    /\ UNCHANGED <<lastReq, lastResp, lastFeat, history>>
    /\ UNCHANGED <<trainerVars, fileVars, rngVars, labelVars, encVars>>

Load(f, from, to) ==
    /\ spc = from
    /\ IF Readable(f)
       THEN /\ spc' = to
            /\ sModel' = IF f = "model" THEN fs[f] ELSE sModel
            /\ sEnc' = IF f = "encoders" THEN fs[f] ELSE sEnc
            /\ sScaler' = IF f = "scaler" THEN fs[f] ELSE sScaler
       ELSE /\ spc' = "exited"
            /\ UNCHANGED <<sModel, sEnc, sScaler>>
    /\ UNCHANGED <<lastReq, lastResp, lastFeat, history>>
    /\ UNCHANGED <<trainerVars, fileVars, rngVars, labelVars, encVars>>

\* model = ...; encoders = ...; scaler = joblib.load(...), then the server runs
LoadArtifacts ==
    \/ Load("model", "loadModel", "loadEncoders")
    \/ Load("encoders", "loadEncoders", "loadScaler")
    \/ Load("scaler", "loadScaler", "serving")

(***************************************************************************)
(* JSON values of a request body: t is the JSON type ("missing": the key   *)
(* is not in the body), s the text of a string, i the number (a float in   *)
(* tenths, a bool as 0 or 1).                                              *)
(***************************************************************************)
JMissing == [t |-> "missing", s |-> "", i |-> 0]
JNull == [t |-> "null", s |-> "", i |-> 0]
JStr(x) == [t |-> "str", s |-> x, i |-> 0]
JInt(x) == [t |-> "int", s |-> "", i |-> x]
JFloat(tenths) == [t |-> "float", s |-> "", i |-> tenths]
JBool(b) == [t |-> "bool", s |-> "", i |-> IF b THEN 1 ELSE 0]

\* data.get(key): None for a key that is not there
Get(v) == IF v.t = "missing" THEN JNull ELSE v

\* data.get(key, default)
GetDefault(v, default) == IF v.t = "missing" THEN default ELSE v

\* the text of a str as int() reads it; -1000 stands for "not a number"
DecimalText(x) ==
    CASE x = "0" -> 0
      [] x = "1" -> 1
      [] x = "3" -> 3
      [] x = "7" -> 7
      [] x = "8" -> 8
      [] OTHER -> -1000

\* int(v): [ok |-> FALSE] stands for the TypeError / ValueError it raises
PyInt(v) ==
    CASE v.t \in {"int", "bool"} -> [ok |-> TRUE, val |-> v.i]
      [] v.t = "float" ->
            [ok |-> TRUE, val |-> IF v.i >= 0 THEN v.i \div 10 ELSE -((-v.i) \div 10)]
      [] v.t = "str" ->
            [ok |-> DecimalText(v.s) # -1000, val |-> DecimalText(v.s)]
      [] OTHER -> [ok |-> FALSE, val |-> 0]

\* bool(v)
Truthy(v) ==
    CASE v.t = "str" -> v.s # ""
      [] v.t \in {"int", "float", "bool"} -> v.i # 0
      [] OTHER -> FALSE

\* v in <list of str>
InList(v, list) == v.t = "str" /\ v.s \in Range(list)

\* isinstance(v, int): bool is a subclass of int
IsInstanceInt(v) == v.t \in {"int", "bool"}

ErrBus == [text |-> "Invalid bus number. Valid buses: ", lists |-> valid_buses]
ErrDestination ==
    [text |-> "Invalid destination. Valid destinations: ", lists |-> valid_destinations]
ErrDay == [text |-> "Invalid day. Valid days: ", lists |-> valid_days]
ErrTime == [text |-> "Invalid time period. Time must be hour (0-23)", lists |-> <<>>]
ErrStop == [text |-> "Invalid stop sequence. Enter between 1 and 7", lists |-> <<>>]
ErrPrediction == [text |-> "Prediction error: ", lists |-> <<>>]
NoError == [text |-> "", lists |-> <<>>]

NoFeatures == <<>>

NoEcho == <<>>

NoPrediction == <<>>

Failure(code, err) ==
    [resp |-> [status |-> code, success |-> FALSE, error |-> err,
               predicted_arrival_time |-> NoPrediction, echo |-> NoEcho],
     features |-> NoFeatures,
     features_scaled |-> NoFeatures]

\* the feature row in the order Time_Period, Stop_Sequence first
FeatureRowSwapped(bus_encoded, destination_encoded, day_encoded, time_period, stop_sequence) ==
    <<bus_encoded, destination_encoded, day_encoded, stop_sequence, time_period>>

\* np.array([[bus_encoded, destination_encoded, day_encoded, time_period, stop_sequence]])
FeatureRow(bus_encoded, destination_encoded, day_encoded, time_period, stop_sequence) ==
    <<bus_encoded, destination_encoded, day_encoded, time_period, stop_sequence>>

(***************************************************************************)
(* The /predict handler, lines 58-144, for the request body `data` and the *)
(* module globals encoders, scaler, model.  The result is the response and *)
(* the local features_scaled (NoFeatures when the handler returned or      *)
(* raised before building it).                                             *)
(***************************************************************************)
Handle(data, encoders, scaler, model) ==
    LET bus_number == Get(data.bus_number)
        destination == Get(data.destination)
        day_of_week == GetDefault(data.day_of_week, JStr("Monday"))
        time_period == Get(data.time_period)
        conv == PyInt(GetDefault(data.stop_sequence, JInt(1)))
        stop_sequence == conv.val
    IN  IF ~conv.ok THEN Failure(500, ErrPrediction)
        ELSE IF ~Truthy(bus_number) \/ ~InList(bus_number, valid_buses)
            THEN Failure(400, ErrBus)
        ELSE IF ~Truthy(destination) \/ ~InList(destination, valid_destinations)
            THEN Failure(400, ErrDestination)
        ELSE IF ~InList(day_of_week, valid_days)
            THEN Failure(400, ErrDay)
        ELSE IF \/ time_period.t = "null"
                \/ ~IsInstanceInt(time_period)
                \/ time_period.i < 0
                \/ time_period.i > 23
            THEN Failure(400, ErrTime)
        ELSE IF stop_sequence < 1 \/ stop_sequence > 7
            THEN Failure(400, ErrStop)
        ELSE IF \/ ~Seen(encoders.bus_encoder, bus_number.s)
                \/ ~Seen(encoders.destination_encoder, destination.s)
                \/ ~Seen(encoders.day_encoder, day_of_week.s)
            THEN \* LabelEncoder.transform raises ValueError
                 Failure(500, ErrPrediction)
        ELSE LET bus_encoded ==
                     LabelEncoderTransform(encoders.bus_encoder, bus_number.s)
                 destination_encoded ==
                     LabelEncoderTransform(encoders.destination_encoder, destination.s)
                 day_encoded ==
                     LabelEncoderTransform(encoders.day_encoder, day_of_week.s)
                 features ==
                     FeatureRow(bus_encoded, destination_encoded, day_encoded,
                                time_period.i, stop_sequence)
                 features_scaled == StandardScalerTransform(scaler, features)
                 predicted_time == RidgePredict(model, features_scaled)
             IN  [resp |->
                     [status |-> 200, success |-> TRUE, error |-> NoError,
                      predicted_arrival_time |-> predicted_time,
                      echo |-> [bus_number |-> bus_number,
                                destination |-> destination,
                                day_of_week |-> day_of_week,
                                time_period |-> time_period,
                                stop_sequence |-> stop_sequence]],
                  features |-> features,
                  features_scaled |-> features_scaled]

\* a handler that calls scaler.fit_transform(features) on the request row
PredictRefit(requests) ==
    /\ spc = "serving"
    /\ \E data \in requests :
        LET out == Handle(data, sEnc.data, sScaler.data, sModel.data)
        IN  /\ lastReq' = data
            /\ lastResp' = out.resp
            /\ lastFeat' = out.features_scaled
            /\ sScaler' = IF out.resp.status = 200
                          THEN [sScaler EXCEPT !.data =
                                   StandardScalerFit(<<out.features>>)]
                          ELSE sScaler
    /\ UNCHANGED <<spc, sModel, sEnc>>
    /\ UNCHANGED <<trainerVars, fileVars, rngVars, labelVars, encVars>>

\* POST /predict with body `data`, answered by a serving process
Predict(requests) ==
    /\ spc = "serving"
    /\ \E data \in requests :
        LET out == Handle(data, sEnc.data, sScaler.data, sModel.data)
        IN  /\ lastReq' = data
            /\ lastResp' = out.resp
            /\ lastFeat' = out.features_scaled
    /\ UNCHANGED <<spc, sModel, sEnc, sScaler>>
    /\ UNCHANGED <<trainerVars, fileVars, rngVars, labelVars, encVars>>

(***************************************************************************)
(* The values the pipeline specification draws from.                       *)
(***************************************************************************)
GenBuses == {"BUS001", "BUS003"}
GenDestinations == {"Nagercoil"}
GenDays == {"Monday"}
GenHours == {8, 14}
GenStops == {3}
GenNoise == {0}

BaseRequest ==
    [bus_number |-> JStr("BUS001"), destination |-> JStr("Nagercoil"),
     day_of_week |-> JStr("Monday"), time_period |-> JInt(14),
     stop_sequence |-> JInt(3)]

BusInputs == {JStr("BUS003"), JStr("BUS008"), JStr("BUS009"), JStr(""), JNull, JMissing, JInt(1)}

DestinationInputs == {JStr("Colachel"), JStr("Thuckalay"), JStr("Chennai"), JNull, JMissing}

DayInputs == {JStr("Sunday"), JStr("Funday"), JNull, JMissing, JInt(1)}

TimeInputs ==
    {JInt(0), JInt(8), JInt(23), JInt(24), JInt(-1), JStr("8"), JFloat(145),
     JBool(TRUE), JNull, JMissing}

StopInputs ==
    {JInt(1), JInt(7), JInt(0), JInt(8), JStr("3"), JStr("8"), JStr("abc"),
     JFloat(37), JFloat(5), JBool(TRUE), JNull, JMissing}

\* the base request, and every request that differs from it in one field, or in
\* the bus number and the stop sequence
Requests ==
    {BaseRequest}
    \cup {[BaseRequest EXCEPT !.bus_number = v] : v \in BusInputs}
    \cup {[BaseRequest EXCEPT !.destination = v] : v \in DestinationInputs}
    \cup {[BaseRequest EXCEPT !.day_of_week = v] : v \in DayInputs}
    \cup {[BaseRequest EXCEPT !.time_period = v] : v \in TimeInputs}
    \cup {[BaseRequest EXCEPT !.stop_sequence = v] : v \in StopInputs}
    \cup {[BaseRequest EXCEPT !.bus_number = JStr("BUS009"), !.stop_sequence = v] :
             v \in StopInputs}

NoRequest ==
    [bus_number |-> JMissing, destination |-> JMissing, day_of_week |-> JMissing,
     time_period |-> JMissing, stop_sequence |-> JMissing]

NoResponse ==
    [status |-> 0, success |-> FALSE, error |-> NoError,
     predicted_arrival_time |-> NoPrediction, echo |-> NoEcho]

(***************************************************************************)
(* Initial states.                                                         *)
(***************************************************************************)
TrainerInit ==
    /\ run = 0
    /\ tpc = "none"
    /\ df = <<>>
    /\ tX = <<>>
    /\ ty = <<>>
    /\ tEnc = NoEncoders
    /\ trainX = <<>>
    /\ tScaler = NoScaler
    /\ tModel = NoModel

FileInit ==
    /\ csv = <<>>
    /\ fs = [f \in Files |-> Absent]

ServiceInit ==
    /\ spc = "init"
    /\ sModel = NotLoaded
    /\ sEnc = NotLoaded
    /\ sScaler = NotLoaded
    /\ lastReq = NoRequest
    /\ lastResp = NoResponse
    /\ lastFeat = NoFeatures
    /\ history = <<>>

RngIdle ==
    /\ proc = 0
    /\ rngPos = 0
    /\ stream = <<>>
    /\ calls = <<>>

LabelIdle ==
    /\ lin = <<>>
    /\ lout = <<>>

EncIdle ==
    /\ col = <<>>
    /\ classes = <<>>
    /\ codes = <<>>

(***************************************************************************)
(* The pipeline: one training process and one service process, over the    *)
(* drawn datasets and the request set.                                     *)
(***************************************************************************)
Init == TrainerInit /\ FileInit /\ ServiceInit /\ RngIdle /\ LabelIdle /\ EncIdle

Next ==
    \/ StartTraining(MaxRuns)
    \/ GenerateDataset(GenBuses, GenDestinations, GenDays, GenHours, GenStops, GenNoise)
    \/ SaveDataset
    \/ PreprocessData
    \/ TrainModel
    \/ SaveModel
    \/ TrainingCrash
    \/ CheckModelPath
    \/ LoadArtifacts
    \/ Predict(Requests) /\ UNCHANGED history

Spec == Init /\ [][Next]_vars

(***************************************************************************)
(* The life cycle: training processes that follow one another, each over   *)
(* the same single row, and the service process starting at any moment.    *)
(***************************************************************************)
LifeRequests ==
    {BaseRequest,
     [BaseRequest EXCEPT !.time_period = JInt(8)],
     [BaseRequest EXCEPT !.bus_number = JStr("BUS003")],
     [BaseRequest EXCEPT !.stop_sequence = JNull]}

\* the first MaxHistory calls and their responses are remembered
Remember ==
    history' = IF Len(history) < MaxHistory
               THEN Append(history, [req |-> lastReq', resp |-> lastResp'])
               ELSE history

NextLife ==
    \/ StartTraining(LifeRuns)
    \/ GenerateDataset({"BUS001"}, {"Nagercoil"}, {"Monday"}, {14}, {3}, {0})
    \/ SaveDataset
    \/ PreprocessData
    \/ TrainModel
    \/ SaveModel
    \/ TrainingCrash
    \/ CheckModelPath
    \/ LoadArtifacts
    \/ Predict(LifeRequests) /\ Remember

SpecLife == Init /\ [][NextLife]_vars

(***************************************************************************)
(* One label: generate_dataset's loop body for any row and any noise.      *)
(***************************************************************************)
LabelHours == {0, 5, 6, 11, 12, 17, 18, 20, 21, 23}
LabelStops == {1, 4, 7}
LabelDays == {"Monday", "Saturday", "Sunday"}
LabelNoise == {-3000, -2501, -5, 0, 5, 300, 301, 3000}

LabelInit ==
    /\ \E b \in Range(BUS_NUMBERS), d \in Range(DESTINATIONS), w \in LabelDays,
          h \in LabelHours, s \in LabelStops, z \in LabelNoise :
          lin = [row |-> [Bus_Number |-> b, Destination |-> d, Day_Of_Week |-> w,
                          Time_Period |-> h, Stop_Sequence |-> s],
                 noise |-> z]
    /\ lout = <<>>
    /\ TrainerInit /\ FileInit /\ ServiceInit /\ RngIdle /\ EncIdle

ComputeLabel ==
    /\ lout = <<>>
    /\ lout' = <<ArrivalTime(lin.row, lin.noise)>>
    /\ UNCHANGED <<lin, trainerVars, fileVars, serviceVars, rngVars, encVars>>

SpecLabel == LabelInit /\ [][ComputeLabel]_vars

(***************************************************************************)
(* One LabelEncoder: fit_transform on any column of one categorical field. *)
(***************************************************************************)
Columns(vocabulary) ==
    UNION {[1..n -> Range(vocabulary)] : n \in 1..MaxCol}

EncInit ==
    /\ col \in Columns(BUS_NUMBERS) \cup Columns(DESTINATIONS) \cup Columns(DAYS_OF_WEEK)
    /\ classes = <<>>
    /\ codes = <<>>
    /\ TrainerInit /\ FileInit /\ ServiceInit /\ RngIdle /\ LabelIdle

FitTransform ==
    /\ classes = <<>>
    /\ classes' = LabelEncoderFit(col)
    /\ codes' = LabelEncoderFitTransform(col)
    /\ UNCHANGED <<col, trainerVars, fileVars, serviceVars, rngVars, labelVars>>

SpecEnc == EncInit /\ [][FitTransform]_vars

(***************************************************************************)
(* The numpy global generator.  `import train_model` runs                  *)
(* np.random.seed(42) once per interpreter; generate_dataset draws from    *)
(* the global generator and never seeds it.  The variates seed 42 yields   *)
(* are fixed but not known: stream holds them as far as they were read,    *)
(* and a read beyond it picks the next ones once and for all.              *)
(***************************************************************************)
SEED == 42

Variates == 0..(NumVariates - 1)

\* np.random.choice(values): the variate picks the element
Choice(values, v) == values[(v % Len(values)) + 1]

\* np.random.randint(low, high)
RandInt(low, high, v) == low + (v % (high - low))

\* np.random.normal(0, 0.5), in thousandths of a minute
Normal(v) == 700 * v - 350

\* the DataFrame of generate_dataset(n) when the generator has consumed pos variates
Generated(n, st, pos) ==
    Frame(n,
          [i \in 1..n |-> Choice(BUS_NUMBERS, st[pos + i])],
          [i \in 1..n |-> Choice(DESTINATIONS, st[pos + n + i])],
          [i \in 1..n |-> Choice(DAYS_OF_WEEK, st[pos + 2 * n + i])],
          [i \in 1..n |-> RandInt(0, 24, st[pos + 3 * n + i])],
          [i \in 1..n |-> RandInt(1, 8, st[pos + 4 * n + i])],
          [i \in 1..n |-> Normal(st[pos + 5 * n + i])])

RngInit ==
    /\ proc = 0
    /\ rngPos = 0
    /\ stream = <<>>
    /\ calls = <<>>
    /\ TrainerInit /\ FileInit /\ ServiceInit /\ LabelIdle /\ EncIdle

\* a new interpreter imports train_model: np.random.seed(SEED)
ImportTrainModel ==
    /\ proc < MaxProc
    /\ proc' = proc + 1
    /\ rngPos' = 0
    /\ UNCHANGED <<stream, calls>>
    /\ UNCHANGED <<trainerVars, fileVars, serviceVars, labelVars, encVars>>

\* generate_dataset(n) in the current interpreter
CallGenerate ==
    /\ proc >= 1
    /\ Len(calls) < MaxCalls
    /\ \E n \in 1..MaxGen :
        /\ rngPos + 6 * n <= StreamLen
        /\ \E st \in [1..(IF rngPos + 6 * n > Len(stream)
                         THEN rngPos + 6 * n ELSE Len(stream)) -> Variates] :
            /\ \A k \in 1..Len(stream) : st[k] = stream[k]
            /\ stream' = st
            /\ calls' = Append(calls, [proc |-> proc, seed |-> SEED, n |-> n,
                                       df |-> Generated(n, st, rngPos)])
        /\ rngPos' = rngPos + 6 * n
    /\ UNCHANGED proc
    /\ UNCHANGED <<trainerVars, fileVars, serviceVars, labelVars, encVars>>

NextGen == ImportTrainModel \/ CallGenerate

SpecGen == RngInit /\ [][NextGen]_vars

(***************************************************************************)
(*                              The claims                                 *)
(***************************************************************************)

\* C7 (as stated): generate_dataset called twice with the same n under the same
\* seed, in one process or in two, returns the same dataset field for field.
C7_SameSeedSameDataset ==
    \A i, j \in DOMAIN calls :
        (calls[i].n = calls[j].n /\ calls[i].seed = calls[j].seed)
            => calls[i].df = calls[j].df

\* C8: every label generate_dataset computes, for any row of the vocabularies,
\* any hour and stop and any noise, lies between 1 and 20 minutes.
C8_LabelBound == \A i \in DOMAIN lout : 100 <= lout[i] /\ lout[i] <= 2000

\* a label whose sum with the noise fell below one minute and was clipped
C8_Witness ==
    /\ lout = <<100>>
    /\ total_arrival_time(lin.row, lin.noise) < 1000

\* the vocabulary values in ascending Python string order
AscendingOrder ==
    <<"BUS001", "BUS002", "BUS003", "BUS004", "BUS005", "BUS006", "BUS007", "BUS008",
      "Colachel", "Friday", "Kanyakumari", "Kulasekaram", "Marthandam", "Monday",
      "Nagercoil", "Padmanabhapuram", "Saturday", "Suchindram", "Sunday", "Thuckalay",
      "Thursday", "Tuesday", "Wednesday">>

Rank(v) == CHOOSE i \in DOMAIN AscendingOrder : AscendingOrder[i] = v

\* C9: a fitted encoding table maps the k distinct fitted values one-to-one onto
\* the codes 0..k-1, in ascending lexicographic order of the values, and
\* inverse(transform(v)) = v for every fitted value.
C9_EncoderBijection ==
    classes # <<>> =>
        LET fitted == Range(col)
            k == Cardinality(fitted)
        IN  /\ Len(classes) = k
            /\ Range(classes) = fitted
            /\ {LabelEncoderTransform(classes, v) : v \in fitted} = 0..(k - 1)
            /\ \A v, w \in fitted :
                  LabelEncoderTransform(classes, v) = LabelEncoderTransform(classes, w)
                      => v = w
            /\ \A v, w \in fitted :
                  Rank(v) < Rank(w)
                      => LabelEncoderTransform(classes, v) < LabelEncoderTransform(classes, w)
            /\ \A v \in fitted :
                  LabelEncoderInverse(classes, LabelEncoderTransform(classes, v)) = v
            /\ \A i \in DOMAIN col : codes[i] = LabelEncoderTransform(classes, col[i])

\* a column with a repeated value, given out of order, has been fitted
C9_Witness ==
    /\ col = <<"Nagercoil", "Colachel", "Nagercoil">>
    /\ classes = <<"Colachel", "Nagercoil">>
    /\ codes = <<1, 0, 1>>

\* the field values the handler extracted from an answered request
ServedRow(resp) ==
    [Bus_Number |-> resp.echo.bus_number.s,
     Destination |-> resp.echo.destination.s,
     Day_Of_Week |-> resp.echo.day_of_week.s,
     Time_Period |-> resp.echo.time_period.i,
     Stop_Sequence |-> resp.echo.stop_sequence]

\* the handler's own five checks let the request through
PassedValidation(req, resp) ==
    /\ resp.status \notin {0, 400}
    /\ PyInt(GetDefault(req.stop_sequence, JInt(1))).ok

C1_SameVector ==
    /\ lastResp.status = 200 =>
          /\ Encodable(ServedRow(lastResp), sEnc.data)
          /\ lastFeat = TrainingPathRow(ServedRow(lastResp), sEnc.data, sScaler.data)
    /\ (PassedValidation(lastReq, lastResp) /\ lastResp.status # 200) =>
          /\ lastFeat = NoFeatures
          /\ ~Encodable([Bus_Number |-> lastReq.bus_number.s,
                         Destination |-> lastReq.destination.s,
                         Day_Of_Week |-> GetDefault(lastReq.day_of_week, JStr("Monday")).s],
                        sEnc.data)

OutOfDomain(req) ==
    {f \in {"bus_number", "destination", "day_of_week"} :
        ~(req[f].t = "str" /\ req[f].s \in Range(
            CASE f = "bus_number" -> valid_buses
              [] f = "destination" -> valid_destinations
              [] OTHER -> valid_days))}
    \cup {f \in {"time_period"} :
            ~(req[f].t = "int" /\ 0 <= req[f].i /\ req[f].i <= 23)}
    \cup {f \in {"stop_sequence"} :
            ~(req[f].t = "int" /\ 1 <= req[f].i /\ req[f].i <= 7)}

\* the validation failure that names a field and its accepted set or range
ErrorNaming(f) ==
    CASE f = "bus_number" -> ErrBus
      [] f = "destination" -> ErrDestination
      [] f = "day_of_week" -> ErrDay
      [] f = "time_period" -> ErrTime
      [] OTHER -> ErrStop

Answered == lastResp.status # 0

\* C2 (as stated): a request with a field outside its vocabulary or range,
\* missing, null or not an integer, gets a validation failure that names an
\* offending field; it gets neither a success nor the generic prediction error.
C2_InvalidFieldRejected ==
    (Answered /\ OutOfDomain(lastReq) # {}) =>
        /\ lastResp.status = 400
        /\ lastResp.error \in {ErrorNaming(f) : f \in OutOfDomain(lastReq)}

\* C3 (as stated, its first half): a request whose five fields are all inside
\* their vocabulary or range validates and gets a success response (whose
\* predicted_arrival_time the claim then places in [1, 20]).
C3_ValidInputSucceeds ==
    (Answered /\ OutOfDomain(lastReq) = {}) =>
        /\ lastResp.status = 200
        /\ lastResp.success

\* C4 (as stated): the model, encoders and scaler a serving process holds were
\* all written by one training process.
C4_OneGeneration ==
    spc = "serving" => (sModel.run = sEnc.run /\ sEnc.run = sScaler.run)

\* the file the start-up code reads at each of its positions
FileAt(pc) ==
    CASE pc = "loadModel" -> "model"
      [] pc = "loadEncoders" -> "encoders"
      [] OTHER -> "scaler"

\* C5: when the start-up code finds the model file missing, or reads an artifact
\* that is missing or unreadable, the process ends; an ended process stays
\* ended, and only a serving process answers /predict.
C5_LoadFailureIsFatal ==
    /\ [][(spc = "init" /\ spc' # spc /\ fs["model"].state = "absent")
             => spc' = "exited"]_vars
    /\ [][(spc \in {"loadModel", "loadEncoders", "loadScaler"} /\ spc' # spc
              /\ ~Readable(FileAt(spc)))
             => spc' = "exited"]_vars
    /\ [][spc = "exited" => spc' = "exited"]_vars
    /\ [][(lastReq' # lastReq \/ lastResp' # lastResp) => spc = "serving"]_vars
    /\ [](spc = "exited" => ~Answered)

\* the process loaded the model and ended on encoders it could not read
C5_Witness ==
    /\ spc = "exited"
    /\ sModel # NotLoaded
    /\ sEnc = NotLoaded
    /\ ~Readable("encoders")

\* C6: no /predict call, successful or failing, changes the loaded model,
\* encoders or scaler, and calls with the same body get the same response.
C6_PredictIsPure ==
    /\ [][spc = "serving"
             => (sModel' = sModel /\ sEnc' = sEnc /\ sScaler' = sScaler)]_vars
    /\ [](\A i, j \in DOMAIN history :
             history[i].req = history[j].req => history[i].resp = history[j].resp)
    /\ [](\A i \in DOMAIN history :
             history[i].req = lastReq => history[i].resp = lastResp)

\* the same body was answered with success before and after a failing call
C6_Witness ==
    /\ Len(history) = 3
    /\ history[1].req = history[3].req
    /\ history[1].resp.status = 200
    /\ history[2].resp.status = 500

\* column j of matrix M holds one value only
ZeroVariance(M, j) == \A a, b \in DOMAIN M : M[a][j] = M[b][j]

\* C10 (as stated): when a column of the matrix the scaler is fitted on has
\* zero variance, training fails before a model is fitted or persisted.
C10_DegenerateAborts ==
    (trainX # <<>> /\ \E j \in 1..NumFeatures : ZeroVariance(trainX, j)) =>
        /\ tModel = NoModel
        /\ tpc \notin {"trained", "dumpModel", "savedModel", "dumpEncoders",
                       "savedEncoders", "dumpScaler", "done"}

\* the three encoders hold every declared value of their field
FullVocabulary(encoders) ==
    /\ Range(encoders.bus_encoder) = Range(BUS_NUMBERS)
    /\ Range(encoders.destination_encoder) = Range(DESTINATIONS)
    /\ Range(encoders.day_encoder) = Range(DAYS_OF_WEEK)

\* C11 (as stated): after preprocess_data of a training run over any positive
\* number of records, each of the three encoders holds the full declared
\* vocabulary of its field, and a request that passes predict's validation is
\* never answered with the unknown-category prediction error.
C11_EncodersCoverVocabulary ==
    /\ tEnc # NoEncoders => FullVocabulary(tEnc)
    /\ PassedValidation(lastReq, lastResp) => lastResp.status = 200

\* C12 (as stated): the bus-specific delay generate_dataset adds to the label
\* of a row whose bus is one of BUS001..BUS008 lies between 0.2 and 1.2 minutes.
C12_BusDelayRange ==
    (lout # <<>> /\ lin.row.Bus_Number \in Range(BUS_NUMBERS)) =>
        /\ 200 <= bus_delays(lin.row.Bus_Number)
        /\ bus_delays(lin.row.Bus_Number) <= 1200

====
